---- MODULE Spec2Model ----
(***************************************************************************)
(* A model of the netcam-aioiosxe plugin: the DUT session (setup,          *)
(* teardown, the RESTCONF response cache and its lock), the check          *)
(* dispatcher, and the per-kind check handlers.                            *)
(*                                                                         *)
(* Each component has its own specification (SpecCache, SpecSession,       *)
(* SpecDispatch, SpecChecks); a specification leaves the variables of the  *)
(* other components unchanged.                                             *)
(***************************************************************************)
EXTENDS Integers, Sequences, FiniteSets, TLC

\* ------------------------------------------------------------------------
\* Bounds of the model
\* ------------------------------------------------------------------------

\* number of concurrent tasks that use one DUT session
NTasks == 2
\* total number of DUT accessor calls started in one run
MaxCalls == 3
\* number of accessor calls the single task of a device run makes in SpecVlans
MaxSeqCalls == 2
\* VLAN ids the device may report are 1..MaxVlan
MaxVlan == 1
\* interface names the device may report are 1..MaxIf
MaxIf == 2

\* number of devices under test, each with its own DUT session
NDuts == 2

\* number of handler registrations made by code outside this plugin
MaxExtRegs == 2
\* entity keys (interface names, VLAN ids) of a check collection and of the
\* device's tables
MaxEnt == 2
\* interfaces the device lists for the spanning-tree instance of an SVI
MaxMembers == 2

Tasks == 1..NTasks
Duts == 1..NDuts
VlanIds == 1..MaxVlan
Ifs == 1..MaxIf
Ents == 1..MaxEnt

\* ------------------------------------------------------------------------
\* State
\* ------------------------------------------------------------------------

VARIABLES
    \* --- DUT session cache (iosxe_dut.py) ---
    device,         \* the datasets of the device (they do not change during a run)
    api_cache,      \* self._api_cache: cache key -> decoded response document
    lock_owner,     \* self._api_cache_lock: the task holding it, 0 when free
    lock_waiters,   \* self._api_cache_lock: FIFO of the tasks waiting for it
    task,           \* per task: the accessor it runs and where it is suspended
    n_get,          \* per cache key: restconf.get invocations of api_cache_get that
                    \* returned a response
    n_calls,        \* accessor calls started so far
    returned,       \* per cache key: identities of the objects api_cache_get returned
    vlan_tables,    \* the tables returned by the completed get_vlans() calls, in order
    \* --- DUT session lifecycle (iosxe_dut.py setup/teardown), one per device ---
    dut,            \* per device: where setup()/teardown() are and what they did
    \* --- check dispatcher (iosxe_dut.py execute_checks / register) ---
    registry,       \* execute_checks' dispatch registry: collection kind -> handler
    imported,       \* the handler modules of the plugin imported so far
    n_ext_regs,     \* registrations made by code outside the plugin
    dispatched,     \* the last execute_checks call: kind, handler run, outcome
    \* --- check handlers (topology/, vlans/) ---
    collection,     \* the check collection handed to the handler, with the design
    reports,        \* what the device reports to the handler's requests
    check_run       \* the handler's run: position, result list, error raised

cacheVars == <<device, api_cache, lock_owner, lock_waiters, task, n_get, n_calls,
               returned, vlan_tables>>

sessVars == <<dut>>

dispVars == <<registry, imported, n_ext_regs, dispatched>>

chkVars == <<collection, reports, check_run>>

vars == <<cacheVars, sessVars, dispVars, chkVars>>

\* ------------------------------------------------------------------------
\* The response cache: IOSXEDeviceUnderTest.api_cache_get and its users
\* ------------------------------------------------------------------------

\* the cache keys the DUT accessors use
KeyInterfaces == "interfaces"
KeyStp == "get-stp"
KeyVlans == "get-vlans"
Keys == {KeyInterfaces, KeyStp, KeyVlans}

\* A decoded response document (res.json()).  oid is the identity of the
\* decoded object: the n-th get of a key yields object n of that key.  truthy
\* is Python's truth value of the decoded object: FALSE for an empty document
\* such as {}.
\*   stp:    VLAN id -> names of the interfaces of that spanning-tree instance
\*   vlans:  VLAN id -> the per-VLAN object: vi is its "vlan-interfaces" list,
\*           has_ifs/ifs the "interfaces" key get_vlans adds to it
\*   ifaces: the interface names of the interfaces document
NoFn == [x \in {} |-> {}]

EmptyDoc(o) == [oid |-> o, truthy |-> FALSE, stp |-> NoFn, vlans |-> NoFn, ifaces |-> {}]

\* The datasets of the device during one run:
\*   stp:    the spanning-tree (topology) source, VLAN id -> interface names
\*   vlans:  the VLAN membership source, VLAN id -> names in "vlan-interfaces"
\*   ifaces: the names in the interfaces source
PartialFns(D, R) == UNION { [X -> R] : X \in SUBSET D }

Devices ==
    [stp : PartialFns(VlanIds, SUBSET Ifs), vlans : PartialFns(VlanIds, SUBSET Ifs),
     ifaces : {Ifs}]

\* one device whose membership source lists interfaces the topology source lacks
SampleDevice ==
    [stp |-> [v \in VlanIds |-> {}], vlans |-> [v \in VlanIds |-> Ifs], ifaces |-> Ifs]

\* the document the device's dataset of a cache key decodes to
DeviceDoc(dev, k, o) ==
    [oid |-> o, truthy |-> TRUE,
     stp |-> IF k = KeyStp THEN dev.stp ELSE NoFn,
     vlans |-> IF k = KeyVlans
               THEN [v \in DOMAIN dev.vlans |->
                        [vi |-> dev.vlans[v], has_ifs |-> FALSE, ifs |-> {}]]
               ELSE NoFn,
     ifaces |-> IF k = KeyInterfaces THEN dev.ifaces ELSE {}]

\* what the transport may answer to the get of a cache key: the device's
\* dataset, or a response that decodes to an empty document
Responses(dev, k, o) == {EmptyDoc(o), DeviceDoc(dev, k, o)}

\* the content of a document, without its identity
Content(d) == [truthy |-> d.truthy, stp |-> d.stp, vlans |-> d.vlans, ifaces |-> d.ifaces]

OpApiCacheGet == "api_cache_get"
OpGetInterfaces == "get_interfaces"
OpGetVlans == "get_vlans"
Ops == {OpApiCacheGet, OpGetInterfaces, OpGetVlans}

\* waited: the task was queued on the lock in its current api_cache_get
IdleTask == [pc |-> "idle", op |-> "none", key |-> "none", stp |-> NoFn, waited |-> FALSE]

\* the cache component as one value, so that the code between two suspension
\* points can be composed
CacheState ==
    [api_cache |-> api_cache, lock_owner |-> lock_owner, lock_waiters |-> lock_waiters,
     task |-> task, n_get |-> n_get,
     returned |-> returned, vlan_tables |-> vlan_tables]

SetCacheState(s) ==
    /\ api_cache' = s.api_cache
    /\ lock_owner' = s.lock_owner
    /\ lock_waiters' = s.lock_waiters
    /\ task' = s.task
    /\ n_get' = s.n_get
    /\ returned' = s.returned
    /\ vlan_tables' = s.vlan_tables
    /\ UNCHANGED <<sessVars, dispVars, chkVars>>

\* dict assignment  d[k] = v
DictSet(d, k, v) == [x \in DOMAIN d \cup {k} |-> IF x = k THEN v ELSE d[x]]

\* defaultdict(list) lookup of op_vlan_stp_interfaces (iosxe_dut.py:165,186)
StpInterfaces(stp, vlan_id) == IF vlan_id \in DOMAIN stp THEN stp[vlan_id] ELSE {}

\* iosxe_dut.py:181-188: the loop of get_vlans over the cached "get-vlans"
\* document.  It pops "vlan-interfaces" from each cached per-VLAN object and
\* stores the merged set in it under "interfaces".
MergeVlanData(vlan_data, stp, vlan_id) ==
    [vi |-> {}, has_ifs |-> TRUE,
     ifs |-> vlan_data.vi \cup StpInterfaces(stp, vlan_id)]

MergedVlans(doc, stp) ==
    [v \in DOMAIN doc.vlans |-> MergeVlanData(doc.vlans[v], stp, v)]

\* got_vlan_table: VLAN id -> the interface set of the (merged) per-VLAN object
VlanTable(doc, stp) ==
    [v \in DOMAIN doc.vlans |-> MergedVlans(doc, stp)[v].ifs]

\* a release that leaves the lock with its owner
ReleaseNothing(s) == s

\* asyncio.Lock.release(): the lock is free; the first waiter is woken later
Release(s) == [s EXCEPT !.lock_owner = 0]

\* the accessor of task t ends: it returned ("done") or raised ("failed")
Finish(s, t, pc) == [s EXCEPT !.task[t] = [IdleTask EXCEPT !.pc = pc]]

RECURSIVE ApiCacheGet(_, _, _)
RECURSIVE Locked(_, _, _)
RECURSIVE Return(_, _, _)

\* iosxe_dut.py:140: "async with self._api_cache_lock".  asyncio.Lock.acquire
\* takes a free lock at once only when nobody waits for it; otherwise the
\* caller is queued and suspended.
ApiCacheGet(s, t, k) ==
    IF s.lock_owner = 0 /\ s.lock_waiters = <<>>
    THEN Locked([s EXCEPT !.lock_owner = t], t, k)
    ELSE [s EXCEPT !.lock_waiters = Append(@, t), !.task[t].pc = "wait",
                   !.task[t].key = k, !.task[t].waited = TRUE]

\* iosxe_dut.py:141: "if not (has_data := self._api_cache.get(key))": the
\* stored value is used when it is truthy; a missing key and a falsy stored
\* value both lead to the fetch of line 142, a suspension point.
CacheHit(cache, k) == k \in DOMAIN cache /\ cache[k].truthy

Locked(s, t, k) ==
    IF CacheHit(s.api_cache, k)
    THEN Return(Release(s), t, k)
    ELSE [s EXCEPT !.task[t].pc = "fetch", !.task[t].key = k]

\* iosxe_dut.py:145 "return has_data", and the caller's code up to its next
\* suspension point
Return(s, t, k) ==
    LET doc == s.api_cache[k]
        s1 == [s EXCEPT !.returned[k] = @ \cup {doc.oid}]
    IN  CASE s.task[t].op = OpApiCacheGet -> Finish(s1, t, "done")
          \* get_interfaces (147-154): body[...] raises KeyError on an empty document
          [] s.task[t].op = OpGetInterfaces ->
                Finish(s1, t, IF doc.truthy THEN "done" ELSE "failed")
          \* get_vlans (160-172): the STP document, then the second cached get
          [] s.task[t].op = OpGetVlans /\ k = KeyStp ->
                IF doc.truthy
                THEN ApiCacheGet([s1 EXCEPT !.task[t].stp = doc.stp,
                                            !.task[t].waited = FALSE], t, KeyVlans)
                ELSE Finish(s1, t, "failed")
          \* get_vlans (176-190): merge into the cached objects, return the table
          [] OTHER ->
                IF doc.truthy
                THEN Finish([s1 EXCEPT
                        !.api_cache[k].vlans = MergedVlans(doc, s.task[t].stp),
                        !.vlan_tables = Append(@, VlanTable(doc, s.task[t].stp))],
                        t, "done")
                ELSE Finish(s1, t, "failed")

\* iosxe_dut.py:143: the transport answered; the decoded document is stored
\* under the key and returned
Store(s, t, doc) ==
    LET k == s.task[t].key
    IN  Return(Release([s EXCEPT !.api_cache = DictSet(@, k, doc),
                                 !.n_get[k] = @ + 1]), t, k)

\* a task calls one of the DUT accessors
Call(t, op, k) ==
    /\ task[t].pc \in {"idle", "done", "failed"}
    /\ n_calls < MaxCalls
    /\ n_calls' = n_calls + 1
    /\ UNCHANGED device
    /\ LET first == CASE op = OpGetInterfaces -> KeyInterfaces
                      [] op = OpGetVlans -> KeyStp
                      [] OTHER -> k
           s0 == [CacheState EXCEPT !.task[t] = [IdleTask EXCEPT !.op = op]]
       IN  SetCacheState(ApiCacheGet(s0, t, first))

\* the lock was released and t is the first waiter: it takes the lock
Wake(t) ==
    /\ lock_owner = 0
    /\ lock_waiters # <<>>
    /\ Head(lock_waiters) = t
    /\ SetCacheState(Locked([CacheState EXCEPT !.lock_owner = t,
                                               !.lock_waiters = Tail(@)],
                            t, task[t].key))
    /\ UNCHANGED <<n_calls, device>>

\* restconf.get of task t returns a response that decodes to doc
FetchReturn(t) ==
    /\ task[t].pc = "fetch"
    /\ \E doc \in Responses(device, task[t].key, n_get[task[t].key] + 1) :
           SetCacheState(Store(CacheState, t, doc))
    /\ UNCHANGED <<n_calls, device>>

\* a failure of restconf.get that leaves the lock with the task
FetchFailKeepsLock(t) ==
    /\ task[t].pc = "fetch"
    /\ SetCacheState(Finish(CacheState, t, "failed"))
    /\ UNCHANGED <<n_calls, device>>

\* restconf.get of task t (or the decoding of its response) raises: the
\* "async with" releases the lock and the exception ends the accessor
FetchFail(t) ==
    /\ task[t].pc = "fetch"
    /\ SetCacheState(Finish(Release(CacheState), t, "failed"))
    /\ UNCHANGED <<n_calls, device>>

InitCache ==
    /\ api_cache = NoFn
    /\ lock_owner = 0
    /\ lock_waiters = <<>>
    /\ task = [t \in Tasks |-> IdleTask]
    /\ n_get = [k \in Keys |-> 0]
    /\ n_calls = 0
    /\ returned = [k \in Keys |-> {}]
    /\ vlan_tables = <<>>

NextCache ==
    \/ \E t \in Tasks, k \in Keys : Call(t, OpApiCacheGet, k)
    \/ \E t \in Tasks : Call(t, OpGetInterfaces, KeyInterfaces)
    \/ \E t \in Tasks : Call(t, OpGetVlans, KeyStp)
    \/ \E t \in Tasks : Wake(t)
    \/ \E t \in Tasks : FetchReturn(t)
    \/ \E t \in Tasks : FetchFail(t)

\* the accessor calls of the single task of a device run
NextVlans ==
    \/ \E k \in Keys : n_calls < MaxSeqCalls /\ Call(1, OpApiCacheGet, k)
    \/ n_calls < MaxSeqCalls /\ Call(1, OpGetInterfaces, KeyInterfaces)
    \/ n_calls < MaxSeqCalls /\ Call(1, OpGetVlans, KeyStp)
    \/ FetchReturn(1)
    \/ FetchFail(1)

\* ------------------------------------------------------------------------
\* The DUT session lifecycle: IOSXEDeviceUnderTest.setup and teardown
\* ------------------------------------------------------------------------

\* The session of one device after __init__ (iosxe_dut.py:55-61): nothing is
\* probed, the SSH CLI session is not open, the RESTCONF client exists.
\*   pc            the await at which setup()/teardown() is suspended
\*   ssh_avail     what ssh.is_available() answered ("none" before the probe)
\*   rc_avail      what restconf.check_connection() answered
\*   ssh_probes, rc_probes      how often each probe was attempted
\*   cli_open      the SSH CLI session is open
\*   rc_open       the RESTCONF client is not closed
\*   cli_close_calls, aclose_calls   how often teardown() called each close
\*   setup_result, teardown_result   "none", "ok" (returned) or "raised"
NewDut ==
    [pc |-> "new", ssh_avail |-> "none", rc_avail |-> "none",
     ssh_probes |-> 0, rc_probes |-> 0, cli_open |-> FALSE, rc_open |-> TRUE,
     cli_close_calls |-> 0, aclose_calls |-> 0,
     setup_result |-> "none", teardown_result |-> "none"]

SetDut(d, r) ==
    /\ dut' = [dut EXCEPT ![d] = r]
    /\ UNCHANGED <<cacheVars, dispVars, chkVars>>

\* setup() raises: the exception leaves setup() where it is
SetupRaises(r) == [r EXCEPT !.pc = "setup_over", !.setup_result = "raised"]

\* a setup() that does not look at the answer of the SSH probe
AfterSshProbeUnchecked(r, available) == [r EXCEPT !.pc = "cli_open"]

\* iosxe_dut.py:73-74: "if not await self.ssh.is_available(): raise"
AfterSshProbe(r, available) ==
    IF available THEN [r EXCEPT !.pc = "cli_open"] ELSE SetupRaises(r)

\* a setup() that does not look at the answer of the RESTCONF probe
AfterRestconfProbeUnchecked(r, available) ==
    [r EXCEPT !.pc = "setup_over", !.setup_result = "ok"]

\* iosxe_dut.py:78-81: "if not await self.restconf.check_connection(): raise";
\* otherwise setup() returns
AfterRestconfProbe(r, available) ==
    IF available
    THEN [r EXCEPT !.pc = "setup_over", !.setup_result = "ok"]
    ELSE SetupRaises(r)

\* iosxe_dut.py:69-71: setup() is called and awaits the base class's setup()
SetupCall(d) ==
    /\ dut[d].pc = "new"
    /\ SetDut(d, [dut[d] EXCEPT !.pc = "super_setup"])

\* iosxe_dut.py:71: the base class's setup() returns or raises
SuperSetup(d) ==
    /\ dut[d].pc = "super_setup"
    /\ \E ok \in BOOLEAN :
          SetDut(d, IF ok THEN [dut[d] EXCEPT !.pc = "ssh_probe"] ELSE SetupRaises(dut[d]))

\* iosxe_dut.py:73: the SSH probe answers (it catches every exception of the
\* connection attempt and answers False, iosxe_dd.py:23-28)
SshIsAvailable(d) ==
    /\ dut[d].pc = "ssh_probe"
    /\ \E available \in BOOLEAN :
          SetDut(d, AfterSshProbe(
                      [dut[d] EXCEPT !.ssh_probes = @ + 1,
                                     !.ssh_avail = IF available THEN "yes" ELSE "no"],
                      available))

\* iosxe_dut.py:76: "await self.ssh.cli.open()" opens the session or raises
CliOpen(d) ==
    /\ dut[d].pc = "cli_open"
    /\ \E ok \in BOOLEAN :
          SetDut(d, IF ok
                    THEN [dut[d] EXCEPT !.pc = "rc_probe", !.cli_open = TRUE]
                    ELSE SetupRaises(dut[d]))

\* iosxe_restconf.py:69-84: check_connection answers True, or False on OSError
CheckConnection(d) ==
    /\ dut[d].pc = "rc_probe"
    /\ \E available \in BOOLEAN :
          SetDut(d, AfterRestconfProbe(
                      [dut[d] EXCEPT !.rc_probes = @ + 1,
                                     !.rc_avail = IF available THEN "yes" ELSE "no"],
                      available))

\* teardown() raises: the exception leaves teardown() where it is
TeardownRaises(r) == [r EXCEPT !.pc = "teardown_over", !.teardown_result = "raised"]

\* iosxe_dut.py:85: after "await self.ssh.cli.close()": teardown goes on to
\* the RESTCONF client only when the close did not raise
AfterCliClose(r, ok) ==
    IF ok
    THEN [r EXCEPT !.pc = "rc_aclose", !.cli_open = FALSE, !.aclose_calls = @ + 1]
    ELSE TeardownRaises(r)

\* iosxe_dut.py:83-85: teardown() is called, after setup() returned or raised,
\* and awaits ssh.cli.close()
TeardownCall(d) ==
    /\ dut[d].pc = "setup_over"
    /\ SetDut(d, [dut[d] EXCEPT !.pc = "cli_close", !.cli_close_calls = @ + 1])

\* iosxe_dut.py:85: ssh.cli.close() returns or raises
CliClose(d) ==
    /\ dut[d].pc = "cli_close"
    /\ \E ok \in BOOLEAN :
          SetDut(d, AfterCliClose(dut[d], ok))

\* iosxe_dut.py:86: restconf.aclose() returns or raises
RestconfAclose(d) ==
    /\ dut[d].pc = "rc_aclose"
    /\ \E ok \in BOOLEAN :
          SetDut(d, IF ok
                    THEN [dut[d] EXCEPT !.pc = "teardown_over", !.rc_open = FALSE,
                                        !.teardown_result = "ok"]
                    ELSE TeardownRaises(dut[d]))

InitSession == dut = [d \in Duts |-> NewDut]

NextSession ==
    \/ \E d \in Duts : SetupCall(d)
    \/ \E d \in Duts : SuperSetup(d)
    \/ \E d \in Duts : SshIsAvailable(d)
    \/ \E d \in Duts : CliOpen(d)
    \/ \E d \in Duts : CheckConnection(d)
    \/ \E d \in Duts : TeardownCall(d)
    \/ \E d \in Duts : CliClose(d)
    \/ \E d \in Duts : RestconfAclose(d)

\* ------------------------------------------------------------------------
\* The check dispatcher: IOSXEDeviceUnderTest.execute_checks and register
\* ------------------------------------------------------------------------

\* the handler modules of the plugin; each registers, when imported, its
\* handler for the collection kind of its annotation
HandlerKind ==
    [iosxe_check_interfaces |-> "InterfaceCheckCollection",
     iosxe_check_ipaddrs |-> "IPInterfacesCheckCollection",
     iosxe_check_cabling |-> "InterfaceCablingCheckCollection",
     iosxe_check_transceivers |-> "TransceiverCheckCollection",
     iosxe_check_device_info |-> "DeviceInformationCheckCollection",
     iosxe_check_vlans |-> "VlanCheckCollection",
     iosxe_check_switchports |-> "SwitchportCheckCollection"]

PluginHandlers == DOMAIN HandlerKind

\* a handler of code outside the plugin
ExternalHandler == "external_handler"

\* the collection kinds a run may hand to execute_checks: those the plugin
\* handles and one it has no handler for
UnhandledKind == "LagCheckCollection"
Kinds == { HandlerKind[h] : h \in PluginHandlers } \cup {UnhandledKind}

\* the body of execute_checks itself, which singledispatchmethod runs for a
\* kind without a registered handler
DefaultHandler == "execute_checks"

\* functools.singledispatch register: registry[cls] = func, with no check for
\* an earlier entry (iosxe_dut.py:99 "register = execute_checks.register")
Register(reg, kind, handler) == DictSet(reg, kind, handler)

\* functools.singledispatch dispatch: the handler registered for the kind,
\* else the default implementation
Dispatch(reg, kind) == IF kind \in DOMAIN reg THEN reg[kind] ELSE DefaultHandler

\* iosxe_dut.py:97 "return super().execute_checks()": the base class's method
\* is called without the collection and its value is returned un-awaited.
\* The call raises TypeError when the base method requires the collection;
\* when it does not, what is returned is the coroutine object of the call.
DefaultOutcomes == {"TypeError", "coroutine"}

\* a registered handler returns its result list or raises
HandlerOutcomes == {"result_list", "raised"}

NoDispatch == [kind |-> "none", handler |-> "none", outcome |-> "none"]

SetDispatch ==
    UNCHANGED <<cacheVars, sessVars, chkVars>>

\* a handler module of the plugin is imported: its decorator registers it
ImportModule(h) ==
    /\ h \notin imported
    /\ imported' = imported \cup {h}
    /\ registry' = Register(registry, HandlerKind[h], h)
    /\ UNCHANGED <<n_ext_regs, dispatched>>
    /\ SetDispatch

\* code outside the plugin registers a handler for a kind
RegisterExternal(kind) ==
    /\ n_ext_regs < MaxExtRegs
    /\ n_ext_regs' = n_ext_regs + 1
    /\ registry' = Register(registry, kind, ExternalHandler)
    /\ UNCHANGED <<imported, dispatched>>
    /\ SetDispatch

\* iosxe_dut.py:88-97: execute_checks is called with a collection of a kind
ExecuteChecks(kind) ==
    /\ LET h == Dispatch(registry, kind)
       IN  \E o \in (IF h = DefaultHandler THEN DefaultOutcomes ELSE HandlerOutcomes) :
               dispatched' = [kind |-> kind, handler |-> h, outcome |-> o]
    /\ UNCHANGED <<registry, imported, n_ext_regs>>
    /\ SetDispatch

InitDispatch ==
    /\ registry = NoFn
    /\ imported = {}
    /\ n_ext_regs = 0
    /\ dispatched = NoDispatch

NextDispatch ==
    \/ \E h \in PluginHandlers : ImportModule(h)
    \/ \E k \in Kinds : RegisterExternal(k)
    \/ \E k \in Kinds : ExecuteChecks(k)

\* ------------------------------------------------------------------------
\* The check handlers: results and their measuring
\* ------------------------------------------------------------------------

KindInterfaces == HandlerKind["iosxe_check_interfaces"]
KindIpaddrs == HandlerKind["iosxe_check_ipaddrs"]
KindCabling == HandlerKind["iosxe_check_cabling"]
KindTransceivers == HandlerKind["iosxe_check_transceivers"]
KindVlans == HandlerKind["iosxe_check_vlans"]
KindSwitchports == HandlerKind["iosxe_check_switchports"]

\* a handler that has not run yet; one that returned has pc "done" and its
\* result list, one that raised has pc "raised", the error and no list
NewRun == [pc |-> "start", results |-> <<>>, error |-> "none"]

Raise(run, error) == [pc |-> "raised", results |-> <<>>, error |-> error]

Returned(run) == IF run.pc = "raised" THEN run ELSE [run EXCEPT !.pc = "done"]

\* the result object made for a check: XxxCheckResult(device=device, check=check).
\* obj names the object, so that a list holding it twice can be told;
\* measurement holds the measurement fields assigned so far, has_measurement
\* is FALSE once the measurement is set to None
NewResult(check) ==
    [obj |-> check.id, id |-> check.id, exclusive_list |-> FALSE,
     has_measurement |-> TRUE, measurement |-> NoFn,
     status |-> "UNSET", fields |-> NoFn, logs |-> {},
     missing |-> {}, extra |-> {}, n_measure |-> 0]

NoMeasurement(result) == [result EXCEPT !.has_measurement = FALSE, !.measurement = NoFn]

\* result.logs.<LEVEL>(field, ...)
Log(result, level, field) == [result EXCEPT !.logs = @ \cup {<<level, field>>}]

\* an on_mismatch that is not given, or returns None for every field
NoOverride(expected) == [f \in DOMAIN expected |-> "None"]

\* result.measure(on_mismatch): a result without a measurement fails; each
\* measured field is compared with the expected value of the field, a
\* mismatch takes the status on_mismatch returns for it and FAIL when that
\* is None; the result keeps a status of INFO set before, fails when a
\* field or a log entry failed, and passes otherwise
Measure(result, expected, on_mismatch) ==
    IF ~result.has_measurement
    THEN [result EXCEPT !.status = "FAIL", !.n_measure = @ + 1]
    ELSE LET m == result.measurement
             fs == [f \in DOMAIN m |->
                        IF m[f] = expected[f] THEN "PASS"
                        ELSE IF on_mismatch[f] # "None" THEN on_mismatch[f]
                        ELSE "FAIL"]
             failed == \/ \E f \in DOMAIN m : fs[f] = "FAIL"
                       \/ \E l \in result.logs : l[1] = "FAIL"
         IN  [result EXCEPT !.fields = fs,
                            !.status = IF @ = "INFO" THEN "INFO"
                                       ELSE IF failed THEN "FAIL" ELSE "PASS",
                            !.n_measure = @ + 1]

\* an exclusive-list result that looks for extra keys only
ExclusiveResultExtraOnly(expd_keys, msrd_keys) ==
    [obj |-> 0, id |-> 0, exclusive_list |-> TRUE,
     has_measurement |-> TRUE, measurement |-> [keys |-> msrd_keys],
     status |-> IF msrd_keys \subseteq expd_keys THEN "PASS" ELSE "FAIL",
     fields |-> NoFn, logs |-> {},
     missing |-> {}, extra |-> msrd_keys \ expd_keys,
     n_measure |-> 1]

\* the result of an exclusive-list check and its measure(): the expected and
\* the measured keys are compared as sets
ExclusiveResult(expd_keys, msrd_keys) ==
    [obj |-> 0, id |-> 0, exclusive_list |-> TRUE,
     has_measurement |-> TRUE, measurement |-> [keys |-> msrd_keys],
     status |-> IF expd_keys = msrd_keys THEN "PASS" ELSE "FAIL",
     fields |-> NoFn, logs |-> {},
     missing |-> expd_keys \ msrd_keys, extra |-> msrd_keys \ expd_keys,
     n_measure |-> 1]

\* results.append(result): the list holds the object, so a result appended
\* earlier and changed later shows the change in the list
Rebind(results, result) ==
    [i \in DOMAIN results |-> IF results[i].obj = result.obj THEN result ELSE results[i]]

AppendResult(run, result) ==
    [run EXCEPT !.results = Append(Rebind(@, result), result)]

\* a change of a result object that is not appended by it
Touch(run, result) == [run EXCEPT !.results = Rebind(@, result)]

\* the collection handed to a handler and what the device reports to it,
\* before the handler runs
InitScenario(sc) ==
    /\ collection = sc[1]
    /\ reports = sc[2]
    /\ check_run = NewRun

\* all tables of a device over the entity keys, with rows of a set
Tables(Rows) == PartialFns(Ents, Rows)

\* an exclusive-list check that takes the place of the results made so far
InPlaceOfResults(run, exclusive, expd_keys, msrd_keys) ==
    IF exclusive /\ run.pc # "raised"
    THEN [run EXCEPT !.results = <<ExclusiveResult(expd_keys, msrd_keys)>>]
    ELSE run

\* the exclusive-list check of a handler, made when the collection asks for it
WithExclusive(run, exclusive, expd_keys, msrd_keys) ==
    IF exclusive /\ run.pc # "raised"
    THEN [run EXCEPT !.results = Append(@, ExclusiveResult(expd_keys, msrd_keys))]
    ELSE run

\* ------------------------------------------------------------------------
\* topology/iosxe_check_interfaces.py
\* ------------------------------------------------------------------------

ExpectedInterfaces ==
    { [used |-> u, oper_up |-> u, desc |-> "uplink", speed |-> 1000] : u \in BOOLEAN }

InterfaceChecks == [id : Ents, reserved : BOOLEAN, expected : ExpectedInterfaces]

\* the rows of the interface table as the device encodes them
InterfaceRows ==
    [admin_status : {"if-state-up", "if-state-down"},
     oper_status : {"if-oper-state-ready", "if-oper-state-lower-layer-down"},
     description : {"uplink", "spare"},
     speed : {1000000000, 100000000}]

\* IOSXEInterfaceMeasurement.from_cli
from_cli(cli_payload) ==
    [used |-> cli_payload.admin_status # "if-state-down",
     oper_up |-> cli_payload.oper_status = "if-oper-state-ready",
     desc |-> cli_payload.description,
     speed |-> cli_payload.speed \div 1000000]

\* an on_mismatch without the rule for the speed of a port that is down
InterfaceOnMismatchNoSkip(measurement) ==
    [f \in DOMAIN measurement |-> IF f = "desc" THEN "WARN" ELSE "None"]

\* an on_mismatch without the rule for the description
InterfaceOnMismatchNoWarn(measurement) ==
    [f \in DOMAIN measurement |->
        IF f = "speed" /\ measurement.oper_up = FALSE THEN "SKIP" ELSE "None"]

\* iosxe_check_one_interface.on_mismatch
InterfaceOnMismatch(measurement) ==
    [f \in DOMAIN measurement |->
        IF f = "desc" THEN "WARN"
        ELSE IF f = "speed" /\ measurement.oper_up = FALSE THEN "SKIP"
        ELSE "None"]

iosxe_check_one_interface(run, check, if_table) ==
    LET result == NewResult(check)
        expd == check.expected
    IN  IF check.id \notin DOMAIN if_table
        THEN AppendResult(run, Measure(NoMeasurement(result), expd, NoOverride(expd)))
        ELSE
        LET measurement == from_cli(if_table[check.id])
        IN  IF check.reserved
            THEN AppendResult(run,
                    Measure(Log([result EXCEPT !.status = "INFO"], "INFO", "reserved"),
                            expd, NoOverride(expd)))
            ELSE IF ~expd.used
            THEN AppendResult(run,
                    Measure([result EXCEPT !.measurement = [used |-> measurement.used]],
                            expd, NoOverride(expd)))
            ELSE AppendResult(run,
                    Measure([result EXCEPT !.measurement = measurement],
                            expd, InterfaceOnMismatch(measurement)))

\* iosxe_check_exclusive_interfaces_list is called before the per-interface
\* checks are made
InterfacesRun(c, d) ==
    LET run0 == WithExclusive(NewRun, c.exclusive, {c.check.id}, DOMAIN d.if_table)
    IN  Returned(iosxe_check_one_interface(run0, c.check, d.if_table))

InterfaceScenarios ==
    \E x \in BOOLEAN, ck \in InterfaceChecks, t \in Tables(InterfaceRows) :
        InitScenario(<<[kind |-> KindInterfaces, exclusive |-> x, check |-> ck],
                       [if_table |-> t]>>)

\* ------------------------------------------------------------------------
\* topology/iosxe_check_ipaddrs.py
\* ------------------------------------------------------------------------

ReservedIpaddr == "is_reserved"

ExpectedIpaddrs == [if_ipaddr : {"10.0.0.1/24", ReservedIpaddr}, oper_up : {TRUE}]

\* the VLAN ids of the SVIs checked; svi_vlan = 0 is an interface whose name
\* does not start with "Vlan"
SviVlans == {20, 1000}

IpChecks == [id : Ents, svi_vlan : {0} \cup SviVlans, expected : ExpectedIpaddrs]

IpRows ==
    [ipv4 : {"0.0.0.0", "10.0.0.1", "10.0.0.2"},
     ipv4_subnet_mask : {"255.255.255.0"},
     oper_status : {"if-oper-state-ready", "if-oper-state-lower-layer-down"}]

\* the design's record of an interface: dut.device_info["interfaces"][name]
IfStates == {"enabled", "disabled", "reserved"}

BoundedSeq(S, n) == UNION { [1..k -> S] : k \in 0..n }

PrefixLen(mask) == IF mask = "255.255.255.0" THEN "24" ELSE "32"

\* str(ipaddress.IPv4Interface((addr, mask)))
IPv4Interface(addr, mask) == addr \o "/" \o PrefixLen(mask)

\* f"{vlan_id:04}" of the text of a VLAN id: a text is padded on the right
Format04(vlan_id) ==
    IF vlan_id < 10 THEN vlan_id * 1000
    ELSE IF vlan_id < 100 THEN vlan_id * 100
    ELSE IF vlan_id < 1000 THEN vlan_id * 10
    ELSE vlan_id

\* Python's == of a set and a list: values of different types are not equal
PyEq(a, b) == a.type = b.type /\ a.value = b.value

\* _check_vlan_assoc_interface.on_mismatch
SviOnMismatch(expected) ==
    [f \in DOMAIN expected |-> IF f = "oper_up" THEN "PASS" ELSE "FAIL"]

\* the device has a spanning-tree detail for the instance of the SVI's VLAN;
\* member i of it is interface i of the design, in the state members[i]
_check_vlan_assoc_interface(run, check, result, members) ==
    IF Format04(check.svi_vlan) # check.svi_vlan
    THEN Raise(run, "KeyError")
    ELSE
    LET vlan_cfgd_ifnames == [type |-> "list", value |-> [i \in DOMAIN members |-> i]]
        disrd_ifnames ==
            [type |-> "set",
             value |-> { i \in DOMAIN members : members[i] \in {"disabled", "reserved"} }]
    IN  IF PyEq(disrd_ifnames, vlan_cfgd_ifnames)
        THEN AppendResult(run,
                Measure(Log(result, "INFO", "oper_up"),
                        check.expected, SviOnMismatch(check.expected)))
        ELSE run

iosxe_test_one_interface(run, check, msrd_data, iface_enabled, members) ==
    LET result == NewResult(check)
        expd == check.expected
    IN  IF msrd_data.ipv4 = "0.0.0.0"
        THEN AppendResult(run, Measure(NoMeasurement(result), expd, NoOverride(expd)))
        ELSE
        LET r1 == [result EXCEPT !.measurement =
                      [if_ipaddr |-> IPv4Interface(msrd_data.ipv4, msrd_data.ipv4_subnet_mask)]]
            is_reserved == expd.if_ipaddr = ReservedIpaddr
            r2 == IF is_reserved
                  THEN Measure([r1 EXCEPT !.status = "INFO"], expd, NoOverride(expd))
                  ELSE r1
            run2 == IF is_reserved THEN AppendResult(run, r2) ELSE run
            oper_up == msrd_data.oper_status = "if-oper-state-ready"
            r3 == [r2 EXCEPT !.measurement =
                      [if_ipaddr |-> r1.measurement.if_ipaddr, oper_up |-> oper_up]]
            run3 == Touch(run2, r3)
        IN  IF iface_enabled /\ ~oper_up /\ check.svi_vlan # 0
            THEN _check_vlan_assoc_interface(run3, check, r3, members)
            ELSE AppendResult(run3, Measure(r3, expd, NoOverride(expd)))

\* every interface of the table, addressed or not
AllTableInterfaces(if_table) == DOMAIN if_table

\* the interfaces the device reports with an address assigned
AddressedInterfaces(if_table) ==
    { e \in DOMAIN if_table : if_table[e].ipv4 # "0.0.0.0" }

IpaddrsRun(c, d) ==
    LET id == c.check.id
        run1 == IF id \notin DOMAIN d.if_table
                THEN AppendResult(NewRun,
                        Measure(NoMeasurement(NewResult(c.check)),
                                c.check.expected, NoOverride(c.check.expected)))
                ELSE iosxe_test_one_interface(NewRun, c.check, d.if_table[id],
                                              c.iface_enabled, c.members)
    IN  Returned(WithExclusive(run1, c.exclusive, {id}, AddressedInterfaces(d.if_table)))

\* the members of the spanning-tree instance matter for an SVI only
IpScenarios ==
    \E x \in BOOLEAN, ck \in IpChecks, en \in BOOLEAN, t \in Tables(IpRows) :
        \E ms \in (IF ck.svi_vlan = 0 THEN {<<>>} ELSE BoundedSeq(IfStates, MaxMembers)) :
            InitScenario(<<[kind |-> KindIpaddrs, exclusive |-> x, check |-> ck,
                            iface_enabled |-> en, members |-> ms],
                           [if_table |-> t]>>)

\* ------------------------------------------------------------------------
\* vlans/iosxe_check_vlans.py
\* ------------------------------------------------------------------------

\* a list and a set of names: equal only to a value of the same type
ListOf(S) == [type |-> "list", value |-> S]
SetOf(S) == [type |-> "set", value |-> S]

SviName == "Vlan"

ExpectedVlans ==
    [oper_up : {TRUE}, name : {"", "blue"},
     interfaces : { ListOf(S) : S \in SUBSET {"Gi1", SviName} }]

VlanChecks == [id : Ents, expected : ExpectedVlans]

\* the rows of the table get_vlans returns
VlanRows ==
    [status : {"active", "suspend"}, name : {"blue", "red"},
     interfaces : SUBSET {"Gi1", "Gi2"}]

Without(table, k) == [x \in DOMAIN table \ {k} |-> table[x]]

\* an on_mismatch without the rule for the name
VlanOnMismatchNoNameRule(exclusive, expd, msrd_ifs_set) ==
    LET expd_ifs_set == expd.interfaces.value
    IN  [f \in DOMAIN expd |->
            IF f = "interfaces"
            THEN IF exclusive
                 THEN IF msrd_ifs_set = expd_ifs_set THEN "PASS" ELSE "None"
                 ELSE IF msrd_ifs_set \cap expd_ifs_set = expd_ifs_set THEN "PASS" ELSE "None"
            ELSE "None"]

\* an on_mismatch that asks for equal sets also of a non-exclusive collection
VlanOnMismatchAlwaysExclusive(exclusive, expd, msrd_ifs_set) ==
    [f \in DOMAIN expd |->
        IF f = "name" THEN "PASS"
        ELSE IF f = "interfaces" /\ msrd_ifs_set = expd.interfaces.value THEN "PASS"
        ELSE "None"]

\* iosxe_check_one_vlan.on_mismatch
VlanOnMismatch(exclusive, expd, msrd_ifs_set) ==
    LET expd_ifs_set == expd.interfaces.value
    IN  [f \in DOMAIN expd |->
            IF f = "name" THEN "PASS"
            ELSE IF f = "interfaces"
            THEN IF exclusive
                 THEN IF msrd_ifs_set = expd_ifs_set THEN "PASS" ELSE "None"
                 ELSE IF msrd_ifs_set \cap expd_ifs_set = expd_ifs_set THEN "PASS" ELSE "None"
            ELSE "None"]

iosxe_check_one_vlan(run, exclusive, result, check, vlan_status) ==
    LET expd == check.expected
        msrd_ifs_set == vlan_status.interfaces
        expd_ifs_set == expd.interfaces.value
        measurement == [oper_up |-> vlan_status.status = "active",
                        name |-> vlan_status.name,
                        interfaces |-> SetOf(msrd_ifs_set)]
        r1 == [result EXCEPT !.measurement = measurement]
        r2 == IF exclusive /\ expd_ifs_set \ msrd_ifs_set # {}
              THEN Log(r1, "FAIL", "interfaces") ELSE r1
        r3 == IF exclusive /\ msrd_ifs_set \ expd_ifs_set # {}
              THEN Log(r2, "FAIL", "interfaces") ELSE r2
        r4 == IF measurement.name # expd.name /\ expd.name # ""
              THEN Log(r3, "WARN", "name") ELSE r3
    IN  AppendResult(run, Measure(r4, expd, VlanOnMismatch(exclusive, expd, msrd_ifs_set)))

VlansRun(c, d) ==
    IF ~c.check_vlan1 /\ 1 \notin DOMAIN d.vlan_table
    THEN Raise(NewRun, "KeyError")
    ELSE
    LET op_vlan_table == IF c.check_vlan1 THEN d.vlan_table ELSE Without(d.vlan_table, 1)
        msrd_active_vlan_ids ==
            { v \in DOMAIN op_vlan_table : op_vlan_table[v].status = "active" }
        vlan_id == c.check.id
        result == NewResult(c.check)
        run1 == IF vlan_id \notin DOMAIN op_vlan_table
                THEN AppendResult(NewRun,
                        Measure(NoMeasurement(result), c.check.expected,
                                NoOverride(c.check.expected)))
                ELSE
                LET row == op_vlan_table[vlan_id]
                    vlan_status == IF d.svi_exists
                                   THEN [row EXCEPT !.interfaces = @ \cup {SviName}]
                                   ELSE row
                IN  iosxe_check_one_vlan(NewRun, c.exclusive, result, c.check, vlan_status)
    IN  Returned(WithExclusive(run1, c.exclusive, {vlan_id}, msrd_active_vlan_ids))

VlanScenarios ==
    \E x \in BOOLEAN, v1 \in BOOLEAN, ck \in VlanChecks,
       t \in Tables(VlanRows), svi \in BOOLEAN :
        InitScenario(<<[kind |-> KindVlans, exclusive |-> x, check_vlan1 |-> v1,
                        check |-> ck],
                       [vlan_table |-> t, svi_exists |-> svi]>>)

\* ------------------------------------------------------------------------
\* topology/iosxe_check_transceivers.py
\* ------------------------------------------------------------------------

ExpectedTransceivers == [model : {"SFP-10G-SR"}, type : {"10GBASE-SR"}]

TransceiverChecks == [id : Ents, reserved : BOOLEAN, expected : ExpectedTransceivers]

\* what the device reports of a transceiver: the expected text, another
\* writing of it, or another part
TransceiverRows ==
    [vendor_part : {"SFP-10G-SR", "SFP-10G-SR-S", "GLC-T"},
     ethernet_pmd : {"10GBASE-SR", "10gbase-sr", "1000BASE-T"}]

\* transceiver_model_matches and transceiver_type_matches
transceiver_model_matches(expd, msrd) == msrd \in {expd, "SFP-10G-SR-S"}
transceiver_type_matches(expd, msrd) == msrd \in {expd, "10gbase-sr"}

\* eos_test_one_interface.on_mismatch
TransceiverOnMismatch(expd, measurement) ==
    [f \in DOMAIN expd |->
        IF f = "model"
        THEN IF transceiver_model_matches(expd.model, measurement.model) THEN "PASS" ELSE "FAIL"
        ELSE IF transceiver_type_matches(expd.type, measurement.type) THEN "PASS" ELSE "FAIL"]

eos_test_one_interface(run, check, result, if_xcvr_table) ==
    LET expd == check.expected
    IN  IF check.id \notin DOMAIN if_xcvr_table
        THEN AppendResult(run, Measure(NoMeasurement(result), expd, NoOverride(expd)))
        ELSE
        LET if_xcvr == if_xcvr_table[check.id]
            measurement == [model |-> if_xcvr.vendor_part, type |-> if_xcvr.ethernet_pmd]
        IN  AppendResult(run,
                Measure([result EXCEPT !.measurement = measurement], expd,
                        TransceiverOnMismatch(expd, measurement)))

\* a transceiver handler that keeps the reserved ports in the measured set
TransceiversRunKeepReserved(c, d) ==
    LET check == c.check
        result == NewResult(check)
        expd_port_set == IF check.reserved THEN {} ELSE {check.id}
        run1 == IF check.reserved
                THEN AppendResult(NewRun,
                        Measure(Log([result EXCEPT !.status = "INFO"], "INFO", "reserved"),
                                check.expected, NoOverride(check.expected)))
                ELSE eos_test_one_interface(NewRun, check, result, d.if_xcvr_table)
    IN  Returned(WithExclusive(run1, c.exclusive, expd_port_set, DOMAIN d.if_xcvr_table))

TransceiversRun(c, d) ==
    LET check == c.check
        result == NewResult(check)
        rsvd_ports_set == IF check.reserved THEN {check.id} ELSE {}
        expd_port_set == IF check.reserved THEN {} ELSE {check.id}
        run1 == IF check.reserved
                THEN AppendResult(NewRun,
                        Measure(Log([result EXCEPT !.status = "INFO"], "INFO", "reserved"),
                                check.expected, NoOverride(check.expected)))
                ELSE eos_test_one_interface(NewRun, check, result, d.if_xcvr_table)
    IN  Returned(WithExclusive(run1, c.exclusive, expd_port_set,
                               DOMAIN d.if_xcvr_table \ rsvd_ports_set))

TransceiverScenarios ==
    \E x \in BOOLEAN, ck \in TransceiverChecks, t \in Tables(TransceiverRows) :
        InitScenario(<<[kind |-> KindTransceivers, exclusive |-> x, check |-> ck],
                       [if_xcvr_table |-> t]>>)

\* ------------------------------------------------------------------------
\* topology/iosxe_check_cabling.py
\* ------------------------------------------------------------------------

ExpectedCabling == [device : {"sw1"}, port_id : {"Gi1/0/1"}]

CablingChecks == [id : Ents, expected : ExpectedCabling]

\* the LLDP record of a local interface: no neighbor, or the neighbor's
\* name and port in the expected text, another writing of it, or another
LldpNeighbors ==
    [system_name : {"sw1", "sw1.example.com", "sw2"},
     port_id : {"Gi1/0/1", "GigabitEthernet1/0/1", "Gi1/0/2"}]

LldpRows == [lldp_neighbor_details : {<<>>} \cup { <<n>> : n \in LldpNeighbors }]

\* nei_hostname_match and nei_interface_match
nei_hostname_match(expd, msrd) == msrd \in {expd, "sw1.example.com"}
nei_interface_match(expd, msrd) == msrd \in {expd, "GigabitEthernet1/0/1"}

\* _check_one_interface.on_mismatch
CablingOnMismatch(expd, measurement) ==
    [f \in DOMAIN expd |->
        IF f = "device"
        THEN IF nei_hostname_match(expd.device, measurement.device) THEN "PASS" ELSE "FAIL"
        ELSE IF nei_interface_match(expd.port_id, measurement.port_id) THEN "PASS" ELSE "FAIL"]

_check_one_interface(run, check, ifnei_status) ==
    LET measurement == [device |-> ifnei_status.system_name,
                        port_id |-> ifnei_status.port_id]
    IN  AppendResult(run,
            Measure([NewResult(check) EXCEPT !.measurement = measurement],
                    check.expected, CablingOnMismatch(check.expected, measurement)))

\* dev_lldpnei_ifname.get(if_name) is None for an interface the device does
\* not list, and None has no get
CablingRun(c, d) ==
    LET check == c.check
    IN  IF check.id \notin DOMAIN d.dev_lldpnei_ifname
        THEN Raise(NewRun, "AttributeError")
        ELSE
        LET port_nei == d.dev_lldpnei_ifname[check.id].lldp_neighbor_details
        IN  IF port_nei = <<>>
            THEN Returned(AppendResult(NewRun,
                    Measure(NoMeasurement(NewResult(check)), check.expected,
                            NoOverride(check.expected))))
            ELSE Returned(_check_one_interface(NewRun, check, port_nei[1]))

CablingScenarios ==
    \E ck \in CablingChecks, t \in Tables(LldpRows) :
        InitScenario(<<[kind |-> KindCabling, exclusive |-> FALSE, check |-> ck],
                       [dev_lldpnei_ifname |-> t]>>)

\* ------------------------------------------------------------------------
\* vlans/iosxe_check_switchports.py
\* ------------------------------------------------------------------------

\* a VlanProfile of the design, and the values that take its place: a VLAN
\* id and None. Values of different types are unequal.
VlanProfile(vlan_id) == [vlan_id |-> vlan_id]
PyInt(n) == [int |-> n]
PyNone == [none |-> TRUE]

ExpectedAccess == [switchport_mode : {"access"}, vlan : { VlanProfile(v) : v \in Ents }]

ExpectedTrunk ==
    [switchport_mode : {"trunk"},
     native_vlan : {PyNone} \cup { VlanProfile(v) : v \in Ents },
     trunk_allowed_vlans : { ListOf({ VlanProfile(v) : v \in S }) : S \in SUBSET Ents }]

SwitchportChecks == [id : Ents, expected : ExpectedAccess \cup ExpectedTrunk]

\* the switchport document of the interface: none, access with its VLAN, or
\* trunk with its native VLAN (0: none configured)
SwitchportBodies ==
    {[mode |-> "absent", vlan |-> 0, native |-> 0]}
    \cup { [mode |-> "access", vlan |-> v, native |-> 0] : v \in Ents }
    \cup { [mode |-> "trunk", vlan |-> 0, native |-> n] : n \in {0} \cup Ents }

_check_access_switchport(run, result, expd, msrd_status) ==
    LET expd1 == [expd EXCEPT !.vlan = PyInt(@.vlan_id)]
    IN  IF msrd_status.mode # "access"
        THEN [run |-> Raise(run, "KeyError"), expected |-> expd1]
        ELSE [run |-> AppendResult(run,
                         Measure([result EXCEPT !.measurement =
                                     [switchport_mode |-> msrd_status.mode,
                                      vlan |-> PyInt(msrd_status.vlan)]],
                                 expd1, NoOverride(expd1))),
              expected |-> expd1]

\* a trunk check that takes VLAN 1 out of the expected VLANs as well
TrunkExpectedWithoutVlan1(run, result, expd, msrd_status) ==
    LET expd1 == [expd EXCEPT !.trunk_allowed_vlans = SetOf({ v.vlan_id : v \in @.value } \ {1}),
                              !.native_vlan = IF @ = PyNone THEN @ ELSE PyInt(@.vlan_id)]
    IN  IF msrd_status.mode # "trunk"
        THEN [run |-> Raise(run, "KeyError"), expected |-> expd1]
        ELSE [run |-> AppendResult(run,
                         Measure([result EXCEPT !.measurement =
                                     [switchport_mode |-> msrd_status.mode,
                                      native_vlan |-> IF msrd_status.native = 0 THEN PyNone
                                                      ELSE PyInt(msrd_status.native),
                                      trunk_allowed_vlans |-> SetOf(msrd_status.trunk_vlans)]],
                                 expd1, NoOverride(expd1))),
              expected |-> expd1]

_check_trunk_switchport(run, result, expd, msrd_status) ==
    LET expd1 == [expd EXCEPT !.trunk_allowed_vlans = SetOf({ v.vlan_id : v \in @.value }),
                              !.native_vlan = IF @ = PyNone THEN @ ELSE PyInt(@.vlan_id)]
    IN  IF msrd_status.mode # "trunk"
        THEN [run |-> Raise(run, "KeyError"), expected |-> expd1]
        ELSE [run |-> AppendResult(run,
                         Measure([result EXCEPT !.measurement =
                                     [switchport_mode |-> msrd_status.mode,
                                      native_vlan |-> IF msrd_status.native = 0 THEN PyNone
                                                      ELSE PyInt(msrd_status.native),
                                      trunk_allowed_vlans |-> SetOf(msrd_status.trunk_vlans)]],
                                 expd1, NoOverride(expd1))),
              expected |-> expd1]

\* the run of the handler and the expected_results it leaves in the check
SwitchportsRun(c, d) ==
    LET check == c.check
        expd == check.expected
        remove_vlan1 == IF ~c.check_vlan1 THEN {1} ELSE {}
        body == d.body
    IN  IF body.mode = "absent"
        THEN [run |-> Raise(NewRun, "KeyError"), expected |-> expd]
        ELSE IF body.mode = "trunk" /\ check.id \notin DOMAIN d.has_if_switchports
        THEN [run |-> Raise(NewRun, "KeyError"), expected |-> expd]
        ELSE
        LET msrd_status ==
                [mode |-> body.mode, vlan |-> body.vlan, native |-> body.native,
                 trunk_vlans |-> IF body.mode = "trunk"
                                 THEN d.has_if_switchports[check.id] \ remove_vlan1
                                 ELSE {}]
            out == IF expd.switchport_mode = "access"
                   THEN _check_access_switchport(NewRun, NewResult(check), expd, msrd_status)
                   ELSE _check_trunk_switchport(NewRun, NewResult(check), expd, msrd_status)
        IN  [run |-> Returned(out.run), expected |-> out.expected]

SwitchportScenarios ==
    \E v1 \in BOOLEAN, ck \in SwitchportChecks, b \in SwitchportBodies,
       t \in Tables(SUBSET Ents) :
        InitScenario(<<[kind |-> KindSwitchports, exclusive |-> FALSE,
                        check_vlan1 |-> v1, check |-> ck],
                       [body |-> b, has_if_switchports |-> t]>>)

\* ------------------------------------------------------------------------
\* The handlers as actions
\* ------------------------------------------------------------------------

\* the handler of the collection's kind may run, once
Ready(kind) == check_run.pc = "start" /\ collection.kind = kind

Ran(run) ==
    /\ check_run' = run
    /\ UNCHANGED <<collection, reports>>
    /\ UNCHANGED <<cacheVars, sessVars, dispVars>>

iosxe_check_interfaces == Ready(KindInterfaces) /\ Ran(InterfacesRun(collection, reports))

iosxe_check_ipaddrs == Ready(KindIpaddrs) /\ Ran(IpaddrsRun(collection, reports))

iosxe_check_vlans == Ready(KindVlans) /\ Ran(VlansRun(collection, reports))

iosxe_check_transceivers == Ready(KindTransceivers) /\ Ran(TransceiversRun(collection, reports))

iosxe_check_cabling == Ready(KindCabling) /\ Ran(CablingRun(collection, reports))

iosxe_check_switchports ==
    /\ Ready(KindSwitchports)
    /\ LET out == SwitchportsRun(collection, reports)
       IN  /\ check_run' = out.run
           /\ collection' = [collection EXCEPT !.check.expected = out.expected]
    /\ UNCHANGED reports
    /\ UNCHANGED <<cacheVars, sessVars, dispVars>>

\* an interfaces collection on a device that lists nothing
SampleScenario ==
    <<[kind |-> KindInterfaces, exclusive |-> FALSE,
       check |-> [id |-> 1, reserved |-> FALSE,
                  expected |-> [used |-> FALSE, oper_up |-> FALSE,
                                desc |-> "uplink", speed |-> 1000]]],
      [if_table |-> NoFn]>>

InitChecks == InitScenario(SampleScenario)

NextChecks ==
    \/ iosxe_check_interfaces
    \/ iosxe_check_ipaddrs
    \/ iosxe_check_vlans
    \/ iosxe_check_transceivers
    \/ iosxe_check_cabling
    \/ iosxe_check_switchports

\* ------------------------------------------------------------------------
\* Specifications
\* ------------------------------------------------------------------------

Init == InitCache /\ device = SampleDevice /\ InitSession /\ InitDispatch /\ InitChecks

\* concurrent tasks on one DUT session, against one sample device
SpecCache == Init /\ [][NextCache]_vars

\* The cache under the scheduling of asyncio: a task made ready is run (the
\* woken first waiter of the lock takes it), and every restconf.get
\* eventually returns or fails.
Fairness ==
    \A t \in Tasks :
        /\ WF_vars(Wake(t))
        /\ WF_vars(FetchReturn(t) \/ FetchFail(t))

SpecCacheFair == Init /\ [][NextCache]_vars /\ Fairness

\* the single task of a device run calling the accessors one after the
\* other, against every device
InitVlans == InitCache /\ device \in Devices /\ InitSession /\ InitDispatch /\ InitChecks

SpecVlans == InitVlans /\ [][NextVlans]_vars

\* the sessions of the devices, set up and torn down independently
SpecSession == Init /\ [][NextSession]_vars

\* the plugin's handler modules being imported, other code registering
\* handlers, and collections being dispatched
SpecDispatch == Init /\ [][NextDispatch]_vars

\* every handler applied to every collection and device report of the bounds
InitAllChecks ==
    /\ InitCache /\ device = SampleDevice /\ InitSession /\ InitDispatch
    /\ \/ InterfaceScenarios
       \/ IpScenarios
       \/ VlanScenarios
       \/ TransceiverScenarios
       \/ CablingScenarios
       \/ SwitchportScenarios

SpecChecks == InitAllChecks /\ [][NextChecks]_vars

\* ------------------------------------------------------------------------
\* Claims about the response cache
\* ------------------------------------------------------------------------

\* C1: for every cache key, the calls of api_cache_get with that key cause at
\* most one transport get that returns a response, and every caller receives
\* the identical object, whatever document the response decodes to (an empty
\* document included).
C1_OneGetIdenticalValues ==
    \A k \in Keys : n_get[k] <= 1 /\ Cardinality(returned[k]) <= 1

\* C2: at most one transport fetch is in flight per cache key, and a requester
\* that waited for the guard while a value was stored under its key returns
\* that value without a fetch of its own.
FetchingTasks(k) == { t \in Tasks : task[t].pc = "fetch" /\ task[t].key = k }

C2_NoDuplicateFetch ==
    /\ \A k \in Keys : Cardinality(FetchingTasks(k)) <= 1
    /\ \A t \in Tasks :
          (task[t].pc = "fetch" /\ task[t].waited) => task[t].key \notin DOMAIN api_cache

\* C3: once a value is stored under a cache key, the content stored under that
\* key is the same in every later state: no later accessor call replaces or
\* modifies it.  (Stated for the stored non-empty documents: an empty one is
\* fetched again, which is C1.)
StoredContentKept ==
    \A k \in DOMAIN api_cache :
        api_cache[k].truthy =>
            k \in DOMAIN api_cache' /\ Content(api_cache'[k]) = Content(api_cache[k])

C3_StoredContentNeverChanges == [][StoredContentKept]_vars

\* the second get_vlans() of a run returns a table equal to the first (the
\* consequence C3 draws)
C3_VlanTablesEqual ==
    \A i, j \in 1..Len(vlan_tables) : vlan_tables[i] = vlan_tables[j]

\* ------------------------------------------------------------------------
\* Claims about the session lifecycle
\* ------------------------------------------------------------------------

\* C4: setup() returns normally only if the SSH probe and the RESTCONF probe
\* both answered available; once a probe answers unavailable setup() has
\* raised; and each probe is attempted at most once.
C4_SetupNeedsBothProbes ==
    \A d \in Duts :
        /\ dut[d].setup_result = "ok" =>
              dut[d].ssh_avail = "yes" /\ dut[d].rc_avail = "yes"
        /\ (dut[d].ssh_avail = "no" \/ dut[d].rc_avail = "no") =>
              dut[d].setup_result = "raised"
        /\ dut[d].ssh_probes <= 1
        /\ dut[d].rc_probes <= 1

\* a setup() that raised because the RESTCONF probe answered unavailable,
\* after the SSH probe answered available, beside one that returned
C4_Witness ==
    \E d, e \in Duts :
        /\ dut[d].setup_result = "raised" /\ dut[d].rc_avail = "no"
        /\ dut[d].ssh_avail = "yes" /\ dut[d].rc_probes = 1
        /\ dut[e].setup_result = "ok"

\* C5: when teardown() is over, the SSH CLI session and the RESTCONF client
\* were both closed and teardown() did not raise, also when a close failed.
C5_TeardownClosesAll ==
    \A d \in Duts :
        dut[d].pc = "teardown_over" =>
            /\ dut[d].teardown_result = "ok"
            /\ dut[d].cli_close_calls = 1
            /\ dut[d].aclose_calls = 1

\* ------------------------------------------------------------------------
\* Claims about the check dispatcher
\* ------------------------------------------------------------------------

\* C6: execute_checks called with a collection whose kind has no registered
\* handler returns an empty result list and does not raise.
C6_UnhandledKindGivesEmptyList ==
    dispatched.handler = DefaultHandler => dispatched.outcome = "empty_list"

\* C7: a handler registered for a kind stays the handler of that kind: a
\* second registration for the kind does not take its place.
FirstHandlerKept ==
    \A k \in DOMAIN registry : k \in DOMAIN registry' /\ registry'[k] = registry[k]

C7_SecondRegistrationRejected == [][FirstHandlerKept]_vars

\* ------------------------------------------------------------------------
\* Claims about the check handlers
\* ------------------------------------------------------------------------

\* the handler has run: it returned its list or raised
HandlerRan == check_run.pc \in {"done", "raised"}

\* the results of the run that answer the check of the collection
EntityResults ==
    { i \in DOMAIN check_run.results : ~check_run.results[i].exclusive_list }

\* the id of the check is not in the table the device reports to the handler
EntityAbsent ==
    CASE collection.kind = KindInterfaces -> collection.check.id \notin DOMAIN reports.if_table
      [] collection.kind = KindIpaddrs -> collection.check.id \notin DOMAIN reports.if_table
      [] collection.kind = KindVlans -> collection.check.id \notin DOMAIN reports.vlan_table
      [] collection.kind = KindTransceivers ->
            collection.check.id \notin DOMAIN reports.if_xcvr_table
      [] collection.kind = KindCabling ->
            collection.check.id \notin DOMAIN reports.dev_lldpnei_ifname
      [] OTHER -> reports.body.mode = "absent"

\* C8: in every handler a check whose entity is absent from the device's
\* table gets a result with measurement None and a status that is not PASS,
\* no field of it is compared, and the handler returns its list.
C8_AbsentEntityResolves ==
    (HandlerRan /\ EntityAbsent) =>
        /\ check_run.pc = "done"
        /\ EntityResults # {}
        /\ \A i \in EntityResults :
              /\ ~check_run.results[i].has_measurement
              /\ check_run.results[i].status # "PASS"
              /\ check_run.results[i].fields = NoFn

\* the entity of the check is flagged reserved
EntityReserved ==
    CASE collection.kind \in {KindInterfaces, KindTransceivers} -> collection.check.reserved
      [] collection.kind = KindIpaddrs ->
            collection.check.expected.if_ipaddr = ReservedIpaddr
      [] OTHER -> FALSE

\* C9: a check of a reserved entity gets a result of status INFO, whatever
\* the device reports.
C9_ReservedIsInfo ==
    (HandlerRan /\ EntityReserved) =>
        /\ check_run.pc = "done"
        /\ EntityResults # {}
        /\ \A i \in EntityResults : check_run.results[i].status = "INFO"

\* the check is of an SVI enabled in the design, with an address of its own
\* expected, that the device reports with an address and down, and every
\* interface of its VLAN is disabled or reserved
SviDownCollateral ==
    /\ collection.kind = KindIpaddrs
    /\ collection.check.svi_vlan # 0
    /\ collection.check.expected.if_ipaddr # ReservedIpaddr
    /\ collection.iface_enabled
    /\ collection.check.id \in DOMAIN reports.if_table
    /\ reports.if_table[collection.check.id].ipv4 # "0.0.0.0"
    /\ reports.if_table[collection.check.id].oper_status # "if-oper-state-ready"
    /\ Len(collection.members) > 0
    /\ \A i \in DOMAIN collection.members :
          collection.members[i] \in {"disabled", "reserved"}

\* C10: for an SVI that is down because all interfaces of its VLAN are
\* disabled or reserved, the handler gives one result for the check, in
\* which the oper_up mismatch is a PASS and an INFO log explains it.
C10_SviCollateralDownPasses ==
    (HandlerRan /\ SviDownCollateral) =>
        /\ check_run.pc = "done"
        /\ Cardinality(EntityResults) = 1
        /\ \A i \in EntityResults :
              /\ check_run.results[i].fields["oper_up"] = "PASS"
              /\ <<"INFO", "oper_up">> \in check_run.results[i].logs

\* the check is of an SVI enabled in the design, with an address of its own
\* expected, that the device reports with an address and down, and some
\* interface of its VLAN is enabled and not reserved
SviDownWithActiveMember ==
    /\ collection.kind = KindIpaddrs
    /\ collection.check.svi_vlan # 0
    /\ collection.check.expected.if_ipaddr # ReservedIpaddr
    /\ collection.iface_enabled
    /\ collection.check.id \in DOMAIN reports.if_table
    /\ reports.if_table[collection.check.id].ipv4 # "0.0.0.0"
    /\ reports.if_table[collection.check.id].oper_status # "if-oper-state-ready"
    /\ \E i \in DOMAIN collection.members : collection.members[i] = "enabled"

\* C11: for an SVI that is enabled and down while an interface of its VLAN
\* is enabled and not reserved, the handler gives a result for the check
\* whose status is FAIL.
C11_SviDownFails ==
    (HandlerRan /\ SviDownWithActiveMember) =>
        /\ check_run.pc = "done"
        /\ \E i \in EntityResults : check_run.results[i].status = "FAIL"

\* ------------------------------------------------------------------------
\* Claims about the VLAN table of get_vlans
\* ------------------------------------------------------------------------

\* C12: every VLAN id of the spanning-tree source has an entry in the table
\* get_vlans builds, also an id the membership source does not list.
C12_StpVlansKept ==
    \A i \in 1..Len(vlan_tables) : DOMAIN device.stp \subseteq DOMAIN vlan_tables[i]

\* the interfaces the two sources list for a VLAN id
SourcesUnion(v) == device.vlans[v] \cup StpInterfaces(device.stp, v)

\* C13: for every VLAN id of the membership source the interface set of the
\* table entry is the union of the interfaces the membership source and the
\* spanning-tree source list for it.
C13_MergedInterfacesAreUnion ==
    \A i \in 1..Len(vlan_tables) :
        \A v \in DOMAIN device.vlans :
            v \in DOMAIN vlan_tables[i] /\ vlan_tables[i][v] = SourcesUnion(v)

\* the table of the first get_vlans call of a session holds the union
C13_FirstTableIsUnion ==
    Len(vlan_tables) >= 1 =>
        \A v \in DOMAIN device.vlans :
            v \in DOMAIN vlan_tables[1] /\ vlan_tables[1][v] = SourcesUnion(v)

\* ------------------------------------------------------------------------
\* Claims about the field overrides of the handlers
\* ------------------------------------------------------------------------

\* the result of the interface check of a collection whose interface is
\* expected to be used, is listed by the device and is not reserved
UsedInterfaceChecked ==
    /\ check_run.pc = "done"
    /\ collection.kind = KindInterfaces
    /\ collection.check.expected.used
    /\ ~collection.check.reserved
    /\ collection.check.id \in DOMAIN reports.if_table

\* field f of result r was compared and the measured value is not the expected
Mismatched(r, f) ==
    /\ f \in DOMAIN r.fields
    /\ r.measurement[f] # collection.check.expected[f]

\* C14: for an interface expected to be used the speed is compared, and a
\* speed mismatch is a SKIP when the measured oper_up is false and a FAIL
\* when it is true, whatever the two speeds are.
C14_SpeedMismatchSkipOrFail ==
    (check_run.pc = "done" /\ collection.kind = KindInterfaces /\ collection.check.expected.used) =>
        \A i \in EntityResults :
            LET r == check_run.results[i]
            IN  /\ UsedInterfaceChecked => "speed" \in DOMAIN r.fields
                /\ Mismatched(r, "speed") =>
                      r.fields["speed"] = IF r.measurement.oper_up THEN "FAIL" ELSE "SKIP"

C14_Witness ==
    /\ UsedInterfaceChecked
    /\ \E i \in EntityResults :
          /\ Mismatched(check_run.results[i], "speed")
          /\ ~check_run.results[i].measurement.oper_up
          /\ check_run.results[i].fields["speed"] = "SKIP"

\* C15: a description mismatch of an interface check is a WARN, never a
\* FAIL, whatever the two descriptions are.
C15_DescMismatchWarns ==
    (check_run.pc = "done" /\ collection.kind = KindInterfaces) =>
        \A i \in EntityResults :
            LET r == check_run.results[i]
            IN  /\ UsedInterfaceChecked => "desc" \in DOMAIN r.fields
                /\ Mismatched(r, "desc") => r.fields["desc"] = "WARN"

C15_Witness ==
    /\ UsedInterfaceChecked
    /\ \E i \in EntityResults :
          /\ Mismatched(check_run.results[i], "desc")
          /\ check_run.results[i].fields["desc"] = "WARN"
          /\ check_run.results[i].status # "FAIL"

\* the handler returned the result of a VLAN check whose fields were compared
VlanCompared(r) ==
    /\ check_run.pc = "done"
    /\ collection.kind = KindVlans
    /\ ~r.exclusive_list
    /\ r.has_measurement

\* C16 as stated: a name mismatch of a VLAN check whose expected name is
\* unset or empty is a PASS, and a WARN log entry is recorded on the result.
C16_UnsetNamePassesWithWarnLog ==
    \A i \in DOMAIN check_run.results :
        LET r == check_run.results[i]
        IN  (VlanCompared(r) /\ Mismatched(r, "name") /\ collection.check.expected.name = "") =>
                /\ r.fields["name"] = "PASS"
                /\ <<"WARN", "name">> \in r.logs

\* C16 as the code has it: a name mismatch of a VLAN check is a PASS; a WARN
\* log entry is recorded on the result when the expected name is set, and
\* none when the expected name is unset or empty.
C16_NameMismatchPassesWarnOnlyIfSet ==
    \A i \in DOMAIN check_run.results :
        LET r == check_run.results[i]
        IN  (VlanCompared(r) /\ Mismatched(r, "name")) =>
                /\ r.fields["name"] = "PASS"
                /\ <<"WARN", "name">> \in r.logs <=> collection.check.expected.name # ""

C16_Witness ==
    \E i \in DOMAIN check_run.results :
        LET r == check_run.results[i]
        IN  /\ VlanCompared(r)
            /\ Mismatched(r, "name")
            /\ collection.check.expected.name = ""
            /\ r.fields["name"] = "PASS"
            /\ <<"WARN", "name">> \notin r.logs

\* the interface sets compared for the interfaces field of a VLAN result
InterfacesAgree(r) ==
    LET msrd == r.measurement.interfaces.value
        expd == collection.check.expected.interfaces.value
    IN  IF collection.exclusive THEN msrd = expd ELSE expd \subseteq msrd

\* C17: the interfaces field of a VLAN check passes iff the measured set
\* equals the expected set when the collection is exclusive, and iff the
\* measured set holds the expected set when it is not; else it is a FAIL.
C17_VlanInterfacesField ==
    \A i \in DOMAIN check_run.results :
        LET r == check_run.results[i]
        IN  VlanCompared(r) =>
                /\ "interfaces" \in DOMAIN r.fields
                /\ r.fields["interfaces"] = IF InterfacesAgree(r) THEN "PASS" ELSE "FAIL"

C17_Witness ==
    \E i \in DOMAIN check_run.results :
        LET r == check_run.results[i]
        IN  /\ VlanCompared(r)
            /\ ~collection.exclusive
            /\ collection.check.expected.interfaces.value # {}
            /\ r.measurement.interfaces.value # collection.check.expected.interfaces.value
            /\ r.fields["interfaces"] = "PASS"

\* ------------------------------------------------------------------------
\* Claims about the exclusive-list checks of the handlers
\* ------------------------------------------------------------------------

\* the positions of the exclusive-list results in the returned list
ExclusiveResults ==
    { i \in DOMAIN check_run.results : check_run.results[i].exclusive_list }

\* the IP handler returned and the device reports e without an address
Unaddressed(e) ==
    /\ collection.kind = KindIpaddrs
    /\ check_run.pc = "done"
    /\ e \in DOMAIN reports.if_table
    /\ reports.if_table[e].ipv4 = "0.0.0.0"

\* C18: an IP check of an interface that reports 0.0.0.0 gives a result
\* without a measurement, and no interface that reports 0.0.0.0 is in the
\* measured set of the IP exclusive-list result.
C18_UnaddressedHasNoMeasurement ==
    /\ Unaddressed(collection.check.id) =>
          /\ EntityResults # {}
          /\ \A i \in EntityResults : ~check_run.results[i].has_measurement
    /\ \A e \in Ents : Unaddressed(e) =>
          \A i \in ExclusiveResults : e \notin check_run.results[i].measurement.keys

C18_Witness ==
    /\ Unaddressed(collection.check.id)
    /\ \E i \in EntityResults : ~check_run.results[i].has_measurement
    /\ \E i \in ExclusiveResults :
          /\ collection.check.id \notin check_run.results[i].measurement.keys
          /\ check_run.results[i].measurement.keys # {}


\* the handler of an exclusive collection returned its results
ExclusiveRan ==
    /\ check_run.pc = "done"
    /\ collection.kind \in {KindInterfaces, KindVlans, KindIpaddrs, KindTransceivers}
    /\ collection.exclusive

\* C19: the exclusive-list result of a collection is appended after every
\* per-entity result of that collection, in each handler with exclusive lists.
C19_ExclusiveAfterEntities ==
    ExclusiveRan =>
        \A x \in ExclusiveResults : \A i \in EntityResults : i < x


ExclusiveKinds == {KindInterfaces, KindVlans, KindIpaddrs, KindTransceivers}

\* the run of the handler on the same collection without its exclusive flag
NonExclusiveRun ==
    LET c == [collection EXCEPT !.exclusive = FALSE]
    IN  CASE collection.kind = KindInterfaces -> InterfacesRun(c, reports)
          [] collection.kind = KindVlans -> VlansRun(c, reports)
          [] collection.kind = KindIpaddrs -> IpaddrsRun(c, reports)
          [] collection.kind = KindTransceivers -> TransceiversRun(c, reports)

\* the ids of the per-entity results of a run, in the order of the list
EntityIds(run) ==
    SelectSeq([i \in DOMAIN run.results |->
                  IF run.results[i].exclusive_list THEN 0 ELSE run.results[i].id],
              LAMBDA id : id # 0)

\* C20: the result list of an exclusive collection holds exactly one
\* exclusive-list result and the per-entity results the handler gives without
\* the flag; the list of a non-exclusive collection holds no exclusive-list
\* result.
C20_OneExclusiveResultBesideEntities ==
    (check_run.pc = "done" /\ collection.kind \in ExclusiveKinds) =>
        /\ Cardinality(ExclusiveResults) = IF collection.exclusive THEN 1 ELSE 0
        /\ EntityIds(check_run) = EntityIds(NonExclusiveRun)

C20_Witness ==
    /\ check_run.pc = "done"
    /\ collection.kind = KindTransceivers
    /\ collection.exclusive
    /\ Cardinality(ExclusiveResults) = 1
    /\ EntityResults # {}


\* the keys a handler expects of the device: the ids of its checks, and of
\* the transceiver handler the ids of its checks that are not reserved
ExpectedKeys ==
    IF collection.kind = KindTransceivers /\ collection.check.reserved
    THEN {}
    ELSE {collection.check.id}

TransceiversExclusiveRan ==
    /\ check_run.pc = "done"
    /\ collection.kind = KindTransceivers
    /\ collection.exclusive

\* the ids of the reserved checks of the transceiver collection
ReservedIds == IF collection.check.reserved THEN {collection.check.id} ELSE {}

\* the expected keys an exclusive-list result was made with
ExpectedOf(r) == r.missing \cup (r.measurement.keys \ r.extra)

\* C22: the transceiver exclusive-list check compares the ids of the checks
\* that are not reserved with the transceiver keys of the device less the
\* reserved ids.
C22_ReservedInNeitherSet ==
    TransceiversExclusiveRan =>
        \A x \in ExclusiveResults :
            LET r == check_run.results[x]
            IN  /\ ExpectedOf(r) = {collection.check.id} \ ReservedIds
                /\ r.measurement.keys = DOMAIN reports.if_xcvr_table \ ReservedIds

C22_Witness ==
    /\ TransceiversExclusiveRan
    /\ collection.check.reserved
    /\ collection.check.id \in DOMAIN reports.if_xcvr_table
    /\ \E x \in ExclusiveResults :
          LET r == check_run.results[x]
          IN  /\ r.measurement.keys # {}
              /\ collection.check.id \notin r.measurement.keys
              /\ ExpectedOf(r) = {}


\* ------------------------------------------------------------------------
\* Claims about the result lists the handlers return
\* ------------------------------------------------------------------------

\* C23: a result in a returned list was appended once and measured once, so
\* nothing was assigned to it after it was appended.
C23_AppendedResultsFinal ==
    check_run.pc = "done" =>
        \A i \in DOMAIN check_run.results :
            /\ check_run.results[i].n_measure = 1
            /\ \A j \in DOMAIN check_run.results :
                  check_run.results[i].obj = check_run.results[j].obj => i = j


\* the device reports the other switchport mode than the check expects
ModeMismatch ==
    /\ collection.kind = KindSwitchports
    /\ reports.body.mode \in {"access", "trunk"}
    /\ reports.body.mode # collection.check.expected.switchport_mode
    /\ (reports.body.mode = "trunk" => collection.check.id \in DOMAIN reports.has_if_switchports)

\* C24: a switchport check whose measured mode is not the expected one gives
\* a FAIL result in the returned list, and the handler does not raise.
C24_ModeMismatchFails ==
    (HandlerRan /\ ModeMismatch) =>
        /\ check_run.pc = "done"
        /\ \E i \in EntityResults : check_run.results[i].status = "FAIL"


\* C25: a handler that returns gives exactly one per-entity result for the
\* check of its collection, neither none nor two.
C25_OneResultPerCheck ==
    check_run.pc = "done" => Cardinality(EntityResults) = 1

\* the same, of every handler but the one of the IP interfaces
C25_OneResultPerCheckButIp ==
    (check_run.pc = "done" /\ collection.kind # KindIpaddrs) =>
        Cardinality(EntityResults) = 1

\* the IP handler returns no result on the SVI path ...
C25_IpNeverNone ==
    (check_run.pc = "done" /\ collection.kind = KindIpaddrs) => EntityResults # {}

\* ... and two for a reserved address
C25_IpNeverTwo ==
    (check_run.pc = "done" /\ collection.kind = KindIpaddrs) =>
        Cardinality(EntityResults) <= 1


\* ------------------------------------------------------------------------
\* Claims about the switchport handler
\* ------------------------------------------------------------------------

\* C26: the switchport handler leaves the expected_results of its checks as
\* they were before the call.
C26_ExpectedResultsKept ==
    [][collection'.check.expected = collection.check.expected]_vars


\* ------------------------------------------------------------------------
\* Claims about failures and progress of api_cache_get
\* ------------------------------------------------------------------------

\* the step in which the fetch of task t fails: the task ends failed and no
\* response was stored
FetchFailed(t) ==
    /\ task[t].pc = "fetch"
    /\ task'[t].pc = "failed"
    /\ n_get' = n_get

\* C27: when the fetch of api_cache_get fails the lock is released, nothing
\* is stored under the key and the cache is unchanged, so that a later call
\* with the key finds no stored value and fetches.
C27_FailedFetchLeavesCache ==
    [][\A t \in Tasks :
          FetchFailed(t) =>
              /\ lock_owner = t
              /\ lock_owner' = 0
              /\ api_cache' = api_cache
              /\ ~CacheHit(api_cache', task[t].key)]_vars

\* a fetch failed, nothing was ever stored, and a task is fetching again
C27_Witness ==
    /\ \E t \in Tasks : task[t].pc = "failed"
    /\ \A k \in Keys : n_get[k] = 0
    /\ api_cache = NoFn
    /\ \E t \in Tasks : task[t].pc = "fetch" /\ lock_owner = t


\* task t is inside api_cache_get: it waits for the lock or for its fetch
Pending(t) == task[t].pc \in {"wait", "fetch"}

\* C28: if every fetch eventually returns or fails, every call of
\* api_cache_get eventually returns or fails; no caller waits for the lock
\* forever.
C28_EveryCallEnds ==
    \A t \in Tasks : Pending(t) ~> ~Pending(t)

\* a caller waits for the lock while another task holds it for its fetch
C28_Witness ==
    \E t \in Tasks, u \in Tasks :
        /\ task[t].pc = "wait"
        /\ task[u].pc = "fetch"
        /\ lock_owner = u
        /\ task[t].key # task[u].key


\* ------------------------------------------------------------------------
\* Claims about the order of the steps of setup()
\* ------------------------------------------------------------------------

\* setup() of d raised because the RESTCONF probe answered unreachable, and
\* teardown() was not called yet
RestconfUnreachable(d) ==
    /\ dut[d].pc = "setup_over"
    /\ dut[d].setup_result = "raised"
    /\ dut[d].rc_avail = "no"

\* C29: the SSH CLI session is opened only after the SSH probe succeeded, and
\* it is still open when setup() raises for an unreachable RESTCONF.
C29_CliOpenAfterProbeAndKept ==
    \A d \in Duts :
        /\ (dut[d].pc = "cli_open" \/ dut[d].cli_open) => dut[d].ssh_avail = "yes"
        /\ RestconfUnreachable(d) => dut[d].cli_open

C29_Witness ==
    \E d \in Duts :
        /\ RestconfUnreachable(d)
        /\ dut[d].cli_open
        /\ dut[d].ssh_avail = "yes"


\* the step of the switchport handler that checks a trunk and returns
TrunkChecked ==
    /\ collection.kind = KindSwitchports
    /\ collection.check.expected.switchport_mode = "trunk"
    /\ check_run.pc = "start"
    /\ check_run'.pc = "done"

\* C30: with check_vlan1 unset VLAN 1 is taken out of the measured
\* trunk-allowed VLANs only; the expected VLANs are compared as supplied, so
\* an expected set that holds VLAN 1 does not match; with check_vlan1 set
\* neither side is altered.
C30_Vlan1RemovedFromMeasuredOnly ==
    [][TrunkChecked =>
          LET r == check_run'.results[1]
              supplied == { v.vlan_id : v \in collection.check.expected.trunk_allowed_vlans.value }
              reported == reports.has_if_switchports[collection.check.id]
              removed == IF collection.check_vlan1 THEN {} ELSE {1}
          IN  /\ r.measurement.trunk_allowed_vlans = SetOf(reported \ removed)
              /\ collection'.check.expected.trunk_allowed_vlans = SetOf(supplied)
              /\ r.fields["trunk_allowed_vlans"] =
                     IF reported \ removed = supplied THEN "PASS" ELSE "FAIL"
              /\ (~collection.check_vlan1 /\ 1 \in supplied) =>
                     r.fields["trunk_allowed_vlans"] = "FAIL"]_vars

\* a trunk that allows the expected VLANs 1 and 2 fails with check_vlan1 unset
C30_Witness ==
    /\ collection.kind = KindSwitchports
    /\ check_run.pc = "done"
    /\ collection.check.expected.switchport_mode = "trunk"
    /\ ~collection.check_vlan1
    /\ collection.check.expected.trunk_allowed_vlans = SetOf({1, 2})
    /\ reports.has_if_switchports[collection.check.id] = {1, 2}
    /\ check_run.results[1].measurement.trunk_allowed_vlans = SetOf({2})
    /\ check_run.results[1].fields["trunk_allowed_vlans"] = "FAIL"

====
